---- MODULE Spec2Model ----
(***************************************************************************)
(* Model of utils/paperwork-migrate.py: main() migrates every document     *)
(* directory of a Paperwork archive to a paperless-ngx server.  The state  *)
(* is main()'s local variables, the export directory, the server's set of  *)
(* accepted documents, and a trace of the external calls of the current    *)
(* run.  Each action is the stretch of main() up to and including one      *)
(* external interaction (HTTP request, subprocess, file-system probe).     *)
(***************************************************************************)
EXTENDS Integers, Sequences, FiniteSets, TLC

\* ---------------------------------------------------------------- bounds
MaxDocs == 2        \* well-formed document directories in the archive
MaxLabels == 2      \* labels of one document (tag-resolution inputs)
MaxTags == 2        \* tag objects in the /api/tags/ response

\* ------------------------------------------------------- text and labels
\* A text (Python str) is a sequence of Unicode code points.  The texts of
\* the model are over the code points 0..383 (Basic Latin, Latin-1
\* Supplement, Latin Extended-A), where lowercasing a character does not
\* depend on its neighbours.

\* The lowercase form of one code point, as a text: U+0130 lowercases to
\* the two code points U+0069 U+0307.
LowerChar(c) ==
  IF c \in 65..90 \/ c \in 192..214 \/ c \in 216..222 THEN <<c + 32>>
  ELSE IF c = 304 THEN <<105, 775>>
  ELSE IF c = 376 THEN <<255>>
  ELSE IF (c \in 256..302 \/ c \in 306..310 \/ c \in 330..374) /\ c % 2 = 0 THEN <<c + 1>>
  ELSE IF (c \in 313..327 \/ c \in 377..381) /\ c % 2 = 1 THEN <<c + 1>>
  ELSE <<c>>

\* str.lower(): every cased character is replaced by its lowercase form.
RECURSIVE lower(_)
lower(s) == IF s = <<>> THEN <<>> ELSE LowerChar(Head(s)) \o lower(Tail(s))

\* "Invoice", "invoice", "RECEIPT", "receipt", "unknown-label"
Invoice == <<73, 110, 118, 111, 105, 99, 101>>
invoice == <<105, 110, 118, 111, 105, 99, 101>>
RECEIPT == <<82, 69, 67, 69, 73, 80, 84>>
receipt == <<114, 101, 99, 101, 105, 112, 116>>
unknown_label == <<117, 110, 107, 110, 111, 119, 110, 45, 108, 97, 98, 101, 108>>
\* "ECOLE" and "ecole" with U+00C9 / U+00E9 as first letter
ECOLE == <<201, 67, 79, 76, 69>>
ecole == <<233, 99, 111, 108, 101>>
\* U+0130 (capital I with dot above) and its lowercase form
IDOT == <<304>>
idot == <<105, 775>>

\* ---------------------------------------------------------- tag resolver
NoTags == [x \in {} |-> 0]

\* tag_ids[tag["slug"]] = tag["id"]
Put(d, k, v) == [x \in DOMAIN d \cup {k} |-> IF x = k THEN v ELSE d[x]]

\* for tag in rsp.json()["results"]: tag_ids[tag["slug"]] = tag["id"]
RECURSIVE TagLoop(_, _, _)
TagLoop(results, i, acc) ==
  IF i > Len(results) THEN acc
  ELSE TagLoop(results, i + 1, Put(acc, results[i].slug, results[i].id))

BuildTagIds(results) == TagLoop(results, 1, NoTags)

\* for label in labels: if label.lower() in tag_ids: payload_tags.append(...)
RECURSIVE PayloadLoop(_, _, _, _)
PayloadLoop(lbls, ids, i, payload_tags) ==
  IF i > Len(lbls) THEN payload_tags
  ELSE PayloadLoop(lbls, ids, i + 1,
         IF lower(lbls[i]) \in DOMAIN ids
         THEN Append(payload_tags, ids[lower(lbls[i])])
         ELSE payload_tags)

\* Mutant: the label is looked up without lowercasing.
RECURSIVE PayloadLoopNoLower(_, _, _, _)
PayloadLoopNoLower(lbls, ids, i, payload_tags) ==
  IF i > Len(lbls) THEN payload_tags
  ELSE PayloadLoopNoLower(lbls, ids, i + 1,
         IF lbls[i] \in DOMAIN ids
         THEN Append(payload_tags, ids[lbls[i]])
         ELSE payload_tags)
PayloadTagsNoLower(lbls, ids) == PayloadLoopNoLower(lbls, ids, 1, <<>>)

PayloadTags(lbls, ids) == PayloadLoop(lbls, ids, 1, <<>>)

\* ------------------------------------------------------- label extractor
\* for label_el in ...: labels.append(label_el["label"]); the KeyError of an
\* element without "label" ends the loop and keeps the labels appended so far.
RECURSIVE LabelLoop(_, _, _)
LabelLoop(els, i, acc) ==
  IF i > Len(els) \/ "label" \notin DOMAIN els[i] THEN acc
  ELSE LabelLoop(els, i + 1, Append(acc, els[i].label))

\* labels = []; try: for label_el in info["document"]["labels"]: ... except KeyError
ExtractLabels(info) ==
  IF "document" \in DOMAIN info /\ "labels" \in DOMAIN info.document
  THEN LabelLoop(info.document.labels, 1, <<>>)
  ELSE <<>>

\* ----------------------------------------------------------- PDF exporter
UNMODIFIED == "unmodified_pdf"
DOC_TO_PAGES == "doc_to_pages"
IMG_BOXES == "img_boxes"
GENERATED_PDF == "generated_pdf"

\* Mutant: the page-based chain is preferred over the unmodified PDF.
FilterArgsPagesFirst(flts) ==
  IF DOC_TO_PAGES \in flts THEN <<DOC_TO_PAGES, IMG_BOXES, GENERATED_PDF>>
  ELSE IF UNMODIFIED \in flts THEN <<UNMODIFIED>>
  ELSE <<>>

\* Mutant: the last two stages of the chain are swapped.
FilterArgsSwapped(flts) ==
  IF UNMODIFIED \in flts THEN <<UNMODIFIED>>
  ELSE IF DOC_TO_PAGES \in flts THEN <<DOC_TO_PAGES, GENERATED_PDF, IMG_BOXES>>
  ELSE <<>>

\* The --filter arguments of the 'export --out' call chosen for a probe
\* result; <<>> when no export call is made.
FilterArgs(flts) ==
  IF UNMODIFIED \in flts THEN <<UNMODIFIED>>
  ELSE IF DOC_TO_PAGES \in flts THEN <<DOC_TO_PAGES, IMG_BOXES, GENERATED_PDF>>
  ELSE <<>>

\* ------------------------------------------------- external collaborators
\* Sequences over S of length at most n.
SeqsUpTo(S, n) == UNION {[1..k -> S] : k \in 0..n}

\* Label texts Paperwork may report and tag objects the server may list.
LabelTexts == {Invoice, RECEIPT, unknown_label, ECOLE, IDOT}
TagObjects == {[slug |-> invoice, id |-> 3], [slug |-> receipt, id |-> 7],
               [slug |-> invoice, id |-> 4], [slug |-> Invoice, id |-> 5],
               [slug |-> ecole, id |-> 9], [slug |-> idot, id |-> 8]}

\* Elements of a labels list: with a "label" field, or without one.
LabelElements == {[label |-> t] : t \in LabelTexts} \cup {[name |-> unknown_label]}

\* stdout of 'show <doc>': a JSON document whose "document" object has a
\* labels list, one whose "document" has none, one without "document".
InfoWithLabels(els) == [document |-> [labels |-> els]]
InfoWithoutLabels == [document |-> [id |-> "doc"]]
InfoWithoutDocument == [status |-> "ok"]

\* The documents of the migrated archive carry no labels list, or the list
\* Invoice, unknown-label whose second element has no "label" field; the
\* tag-resolution specification SpecTags ranges over every list of elements
\* up to MaxLabels.
ShowInfos ==
  {InfoWithoutLabels,
   InfoWithLabels(<<[label |-> Invoice], [name |-> unknown_label]>>)}
AllShowInfos ==
  {InfoWithoutLabels, InfoWithoutDocument} \cup
  {InfoWithLabels(els) : els \in SeqsUpTo(LabelElements, MaxLabels)}

\* stdout of 'export <doc>': the JSON list of available filter names.
FilterLists == {{GENERATED_PDF}, {UNMODIFIED}, {DOC_TO_PAGES}, {UNMODIFIED, DOC_TO_PAGES}}

\* Outcomes of GET /api/: rsp.ok with the version headers, rsp.ok without
\* them, a non-success status.
HealthResponses == {"ok", "ok_no_version", "not_ok"}

\* Lists of tag objects in the 'results' field of GET /api/tags/: the
\* server of the migration has the tags invoice and receipt; SpecTags ranges
\* over every list up to MaxTags.
TagResults == {<<[slug |-> invoice, id |-> 3], [slug |-> receipt, id |-> 7]>>}
AllTagResults == SeqsUpTo(TagObjects, MaxTags)

\* ------------------------------------------------------------------ state
Docs == 1..MaxDocs
NotADir == MaxDocs + 1      \* an archive entry that is a plain file
BadDate == MaxDocs + 2      \* a directory whose name has no %Y%m%d prefix
NoDoc == 0

\* ------------------------------------------------------------ dates
IsDigit(c) == c \in 48..57
DigitVal(c) == c - 48

\* int() of a text of digits.
RECURSIVE Num(_)
Num(t) == IF t = <<>> THEN 0 ELSE 10 * Num(SubSeq(t, 1, Len(t) - 1)) + DigitVal(t[Len(t)])

DaysIn(y, m) ==
  IF m \in {4, 6, 9, 11} THEN 30
  ELSE IF m # 2 THEN 31
  ELSE IF (y % 4 = 0 /\ y % 100 # 0) \/ y % 400 = 0 THEN 29 ELSE 28

\* The lengths %m can take at the head of t, in the order the pattern
\* 1[0-2]|0[1-9]|[1-9] tries them.
MonthLens(t) ==
  (IF Len(t) >= 2 /\ ((t[1] = 49 /\ t[2] \in 48..50) \/ (t[1] = 48 /\ t[2] \in 49..57))
   THEN <<2>> ELSE <<>>)
  \o (IF Len(t) >= 1 /\ t[1] \in 49..57 THEN <<1>> ELSE <<>>)

\* The lengths %d can take at the head of t, in the order the pattern
\* 3[0-1]|[1-2]\d|0[1-9]|[1-9]| [1-9] tries them.
DayLens(t) ==
  (IF Len(t) >= 2 /\ (\/ t[1] = 51 /\ t[2] \in 48..49
                      \/ t[1] \in 49..50 /\ IsDigit(t[2])
                      \/ t[1] = 48 /\ t[2] \in 49..57)
   THEN <<2>> ELSE <<>>)
  \o (IF Len(t) >= 1 /\ t[1] \in 49..57 THEN <<1>> ELSE <<>>)
  \o (IF Len(t) >= 2 /\ t[1] = 32 /\ t[2] \in 49..57 THEN <<2>> ELSE <<>>)

\* The first match of \d\d\d\d %m %d at the head of prefix, as the lengths
\* <<month, day>> of the two fields, or <<>> when the pattern does not match.
FirstMatch(prefix) ==
  IF Len(prefix) < 4 \/ \E i \in 1..4 : ~IsDigit(prefix[i]) THEN <<>>
  ELSE LET rest == SubSeq(prefix, 5, Len(prefix))
           ms == MonthLens(rest)
           Ok(k) == DayLens(SubSeq(rest, ms[k] + 1, Len(rest))) # <<>>
       IN IF \E k \in 1..Len(ms) : Ok(k)
          THEN LET k == CHOOSE x \in 1..Len(ms) : Ok(x) /\ \A z \in 1..(x - 1) : ~Ok(z)
               IN <<ms[k], Head(DayLens(SubSeq(rest, ms[k] + 1, Len(rest))))>>
          ELSE <<>>

\* datetime.strptime(prefix, "%Y%m%d") for a prefix over code points
\* 0..383: <<year, month, day>>, or <<>> for ValueError (no match,
\* unconverted data after the match, or no such calendar day).
strptime(prefix) ==
  LET fm == FirstMatch(prefix) IN
  IF fm = <<>> \/ 4 + fm[1] + fm[2] # Len(prefix) THEN <<>>
  ELSE LET y == Num(SubSeq(prefix, 1, 4))
           m == Num(SubSeq(prefix, 5, 4 + fm[1]))
           dtext == SubSeq(prefix, 5 + fm[1], Len(prefix))
           d == Num(IF dtext[1] = 32 THEN Tail(dtext) ELSE dtext)
       IN IF y >= 1 /\ d <= DaysIn(y, m) THEN <<y, m, d>> ELSE <<>>

\* n as a text of the given width, zero-padded.
RECURSIVE Pad(_, _)
Pad(n, width) ==
  IF width = 0 THEN <<>> ELSE Append(Pad(n \div 10, width - 1), 48 + (n % 10))

\* n >= 1 in decimal, without leading zeros.
RECURSIVE Dec(_)
Dec(n) == IF n < 10 THEN <<48 + n>> ELSE Append(Dec(n \div 10), 48 + (n % 10))

\* doc_date.strftime("%Y-%m-%d") with the C library of the Linux build,
\* whose %Y does not pad the year: 999-01-01 for the year 999.
strftime(date) == Dec(date[1]) \o <<45>> \o Pad(date[2], 2) \o <<45>> \o Pad(date[3], 2)

\* An archive entry (os.DirEntry): its name, the part of the name before the
\* first "_", and is_dir().  Document d is dated 2020-01-0d: the directories
\* with an odd d spell it 2020010d, those with an even d 20201d.
DocEntry(d) ==
  [name |-> d,
   prefix |-> IF d % 2 = 1 THEN <<50, 48, 50, 48, 48, 49, 48>> \o Pad(d, 1)
              ELSE <<50, 48, 50, 48, 49>> \o Pad(d, 1),
   is_dir |-> TRUE]
\* A plain file "notes" and a directory "scan".
FileEntry == [name |-> NotADir, prefix |-> <<110, 111, 116, 101, 115>>, is_dir |-> FALSE]
BadEntry == [name |-> BadDate, prefix |-> <<115, 99, 97, 110>>, is_dir |-> TRUE]
Archives == {{DocEntry(d) : d \in Docs} \cup {FileEntry} \cup x : x \in {{}, {BadEntry}}}

VARIABLES
  archive,    \* entries of paperwork_path (read-only)
  files,      \* names d for which <tmp_path>/<d>.pdf exists
  uploaded,   \* names the server accepted through post_document
  prev,       \* how the previous invocation ended, and whether any earlier one was a dry run
  dryrun,     \* the --dryrun option of the current invocation
  pc,         \* position in main()
  error,      \* the exception that ended the run, or "none"
  todo,       \* entries os.scandir has not yet yielded
  f,          \* the current entry's name
  doc_date,   \* the date parsed from the current entry's name
  labels,     \* labels of the current document
  filters,    \* filter probe result of the current document
  tag_ids,    \* slug -> id
  log         \* the current run's directory visits (with whether the export
              \* file was on disk) and external calls, in order

vars == <<archive, files, uploaded, prev, dryrun, pc, error, todo, f, doc_date,
          labels, filters, tag_ids, log>>

Event(op, doc, ok, arg) == [op |-> op, doc |-> doc, ok |-> ok, arg |-> arg]

Init ==
  /\ archive \in Archives
  /\ files = {}
  /\ uploaded = {}
  /\ prev = [outcome |-> "none", dry |-> FALSE]
  /\ dryrun \in BOOLEAN
  /\ pc = "start"
  /\ error = "none"
  /\ todo = {}
  /\ f = NoDoc
  /\ doc_date = <<>>
  /\ labels = <<>>
  /\ filters = {}
  /\ tag_ids = NoTags
  /\ log = <<>>

\* Mutant: the exception is swallowed and the loop goes on.
RaiseSwallowed(e) == pc' = "scan" /\ error' = e

\* raise: the run ends with exception e.
Raise(e) == pc' = "aborted" /\ error' = e

\* Lines 76-83: both paths must exist.  The export directory cannot be
\* missing once it holds export files.
CheckPaths ==
  /\ pc = "start"
  /\ \E pwork_exists \in BOOLEAN, tpath_exists \in {TRUE} \cup {b \in {FALSE} : files = {}} :
       IF pwork_exists /\ tpath_exists
       THEN pc' = "health" /\ error' = error
       ELSE Raise("ValueError")
  /\ UNCHANGED <<archive, files, uploaded, prev, dryrun, todo, f, doc_date, labels,
                 filters, tag_ids, log>>

\* Mutant: the health probe's status is not checked.
HealthProbeUnchecked ==
  /\ pc = "health"
  /\ \E rsp \in HealthResponses :
       /\ log' = Append(log, Event("get_api", NoDoc, rsp # "not_ok", rsp))
       /\ pc' = "tags" /\ error' = error
  /\ UNCHANGED <<archive, files, uploaded, prev, dryrun, todo, f, doc_date, labels,
                 filters, tag_ids>>

\* Lines 90-98: GET /api/.
HealthProbe ==
  /\ pc = "health"
  /\ \E rsp \in HealthResponses :
       /\ log' = Append(log, Event("get_api", NoDoc, rsp # "not_ok", rsp))
       /\ IF rsp = "not_ok" THEN Raise("RuntimeError")
          ELSE IF rsp = "ok_no_version" THEN Raise("KeyError")
          ELSE pc' = "tags" /\ error' = error
  /\ UNCHANGED <<archive, files, uploaded, prev, dryrun, todo, f, doc_date, labels,
                 filters, tag_ids>>

\* Lines 100-108: GET /api/tags/, build tag_ids, open the directory scan;
\* the server answers with a non-success status or with a list of responses.
GetTagsFrom(responses) ==
  /\ pc = "tags"
  /\ \/ /\ log' = Append(log, Event("get_tags", NoDoc, FALSE, <<>>))
        /\ Raise("HTTPError")
        /\ UNCHANGED <<tag_ids, todo>>
     \/ \E results \in responses :
          /\ log' = Append(log, Event("get_tags", NoDoc, TRUE, <<>>))
          /\ tag_ids' = BuildTagIds(results)
          /\ todo' = archive
          /\ pc' = "scan"
          /\ error' = error
  /\ UNCHANGED <<archive, files, uploaded, prev, dryrun, f, doc_date, labels, filters>>

GetTags == GetTagsFrom(TagResults)

\* Mutant: the existence check always answers no.
ExportPathNeverExists(d) == FALSE

\* Line 114: export_path.exists()
ExportPathExists(d) == d \in files

\* Mutant: the dry-run switch is ignored.
AfterExportAlwaysUpload == "upload"

\* Line 190: the step after the export branch.
AfterExport == IF dryrun THEN "scan" ELSE "upload"

\* Mutant: the export file is opened in a mode that creates it.
OpenExportCreates(d) == TRUE

\* Line 204: open(export_path, "rb") succeeds.
OpenExport(d) == d \in files

\* Lines 109-118: os.scandir yields the next entry (in any order); a plain
\* file is passed over, a directory whose export file exists is skipped,
\* otherwise the date prefix of its name is parsed.
NextEntry ==
  /\ pc = "scan"
  /\ \E e \in todo :
       /\ todo' = todo \ {e}
       /\ f' = e.name
       /\ IF ~e.is_dir
          THEN UNCHANGED <<log, pc, error, doc_date>>
          ELSE /\ log' = Append(log, Event("visit", e.name, TRUE, e.name \in files))
               /\ IF ExportPathExists(e.name)
                  THEN UNCHANGED <<pc, error, doc_date>>
                  ELSE /\ doc_date' = strptime(e.prefix)
                       /\ IF strptime(e.prefix) = <<>> THEN Raise("ValueError")
                          ELSE pc' = "show" /\ error' = error
  /\ UNCHANGED <<archive, files, uploaded, prev, dryrun, labels, filters, tag_ids>>

\* Line 109: the directory listing is exhausted; main() returns.
LoopEnd ==
  /\ pc = "scan"
  /\ todo = {}
  /\ pc' = "done"
  /\ UNCHANGED <<archive, files, uploaded, prev, dryrun, error, todo, f,
                 doc_date, labels, filters, tag_ids, log>>

\* Lines 120-134: 'show <doc>' with check=True, then label extraction; the
\* tool fails or prints one of infos.
ShowFrom(infos) ==
  /\ pc = "show"
  /\ \/ /\ log' = Append(log, Event("show", f, FALSE, <<>>))
        /\ Raise("CalledProcessError")
        /\ UNCHANGED labels
     \/ \E info \in infos :
          /\ log' = Append(log, Event("show", f, TRUE, <<>>))
          /\ labels' = ExtractLabels(info)
          /\ pc' = "probe"
          /\ error' = error
  /\ UNCHANGED <<archive, files, uploaded, prev, dryrun, todo, f, doc_date, filters, tag_ids>>

Show == ShowFrom(ShowInfos)

\* Lines 139-149: 'export <doc>' without --out lists the available filters.
Probe ==
  /\ pc = "probe"
  /\ \/ /\ log' = Append(log, Event("probe", f, FALSE, {}))
        /\ Raise("CalledProcessError")
        /\ UNCHANGED filters
     \/ \E flts \in FilterLists :
          /\ log' = Append(log, Event("probe", f, TRUE, flts))
          /\ filters' = flts
          /\ pc' = "export"
          /\ error' = error
  /\ UNCHANGED <<archive, files, uploaded, prev, dryrun, todo, f, doc_date, labels, tag_ids>>

\* Lines 151-190: the export branch.  A successful 'export --out' writes the
\* export file; a failed one raises and leaves none.
Export ==
  /\ pc = "export"
  /\ IF FilterArgs(filters) = <<>>
     THEN /\ pc' = AfterExport
          /\ UNCHANGED <<log, files, error>>
     ELSE \E ok \in BOOLEAN :
          /\ log' = Append(log, Event("export_out", f, ok, FilterArgs(filters)))
          /\ IF ok
             THEN files' = files \cup {f} /\ pc' = AfterExport /\ error' = error
             ELSE files' = files /\ Raise("CalledProcessError")
  /\ UNCHANGED <<archive, uploaded, prev, dryrun, todo, f, doc_date, labels, filters, tag_ids>>

\* Lines 190-214: build the payload, open the export file, POST it.
Upload ==
  /\ pc = "upload"
  /\ IF ~OpenExport(f)
     THEN /\ Raise("FileNotFoundError")
          /\ UNCHANGED <<log, uploaded>>
     ELSE \E ok \in BOOLEAN :
          /\ log' = Append(log, Event("post", f, ok,
                      [created |-> strftime(doc_date),
                       tags |-> PayloadTags(labels, tag_ids)]))
          /\ IF ok
             THEN uploaded' = uploaded \cup {f} /\ pc' = "scan" /\ error' = error
             ELSE uploaded' = uploaded /\ Raise("RuntimeError")
  /\ UNCHANGED <<archive, files, prev, dryrun, todo, f, doc_date, labels,
                 filters, tag_ids>>

\* Line 218: the operator invokes the script again, any number of times, on
\* the same archive and export directory.
Rerun ==
  /\ pc \in {"done", "aborted"}
  /\ prev' = [outcome |-> pc, dry |-> prev.dry \/ dryrun]
  /\ dryrun' \in BOOLEAN
  /\ pc' = "start"
  /\ error' = "none"
  /\ todo' = {}
  /\ f' = NoDoc
  /\ doc_date' = <<>>
  /\ labels' = <<>>
  /\ filters' = {}
  /\ tag_ids' = NoTags
  /\ log' = <<>>
  /\ UNCHANGED <<archive, files, uploaded>>

Next ==
  \/ CheckPaths
  \/ HealthProbe
  \/ GetTags
  \/ NextEntry
  \/ LoopEnd
  \/ Show
  \/ Probe
  \/ Export
  \/ Upload
  \/ Rerun

Spec == Init /\ [][Next]_vars

\* ------------------------------------------- tag resolution on all inputs
\* One upload run of main() over an archive of one document and one plain
\* file, with the server's tag list ranging over every list up to MaxTags and
\* the document's labels list over every list up to MaxLabels.
InitTags ==
  /\ archive = {DocEntry(1), FileEntry}
  /\ files = {}
  /\ uploaded = {}
  /\ prev = [outcome |-> "none", dry |-> FALSE]
  /\ dryrun = FALSE
  /\ pc = "start"
  /\ error = "none"
  /\ todo = {}
  /\ f = NoDoc
  /\ doc_date = <<>>
  /\ labels = <<>>
  /\ filters = {}
  /\ tag_ids = NoTags
  /\ log = <<>>

GetTagsAll == GetTagsFrom(AllTagResults)
ShowAll == ShowFrom(AllShowInfos)

NextTags ==
  \/ CheckPaths
  \/ HealthProbe
  \/ GetTagsAll
  \/ NextEntry
  \/ LoopEnd
  \/ ShowAll
  \/ Probe
  \/ Export
  \/ Upload

SpecTags == InitTags /\ [][NextTags]_vars

\* ----------------------------------------------------------------- claims
Idx == 1..Len(log)
IsCall(i, op, d) == log[i].op = op /\ log[i].doc = d
Subprocess == {"show", "probe", "export_out"}
Known(flts) == UNMODIFIED \in flts \/ DOC_TO_PAGES \in flts
ExportsOf(d) == {j \in Idx : IsCall(j, "export_out", d)}

\* C1: a directory whose export file is on disk when the loop visits it gets
\* no show, probe, export or POST call in that run, and the run goes on.
C1_SkipExisting ==
  \A i \in Idx :
    (log[i].op = "visit" /\ log[i].arg) =>
      /\ \A j \in Idx : log[j].doc = log[i].doc => log[j].op = "visit"
      /\ (i = Len(log) => pc \in {"scan", "done"} /\ error = "none")

C1_Witness ==
  \E i \in Idx :
    /\ log[i].op = "visit" /\ log[i].arg
    /\ \E j \in Idx : j > i /\ log[j].op = "show" /\ log[j].doc # log[i].doc

\* C2 (as claimed): after a probe that reports neither known filter, no
\* 'export --out' call is made for the document and the run does not abort
\* on it, in dry-run and in upload mode alike.
C2_UnknownFiltersContinue ==
  \A i \in Idx :
    (log[i].op = "probe" /\ log[i].ok /\ ~Known(log[i].arg)) =>
      /\ ExportsOf(log[i].doc) = {}
      /\ (i = Len(log) => pc # "aborted")

\* C3 (as claimed): a re-run after an aborted upload run skips only
\* documents that were uploaded; every other document is attempted again.
C3_RerunSkipsOnlyUploaded ==
  (prev.outcome = "aborted" /\ ~prev.dry /\ ~dryrun) =>
    \A i \in Idx : (log[i].op = "visit" /\ log[i].arg) => log[i].doc \in uploaded

\* C4: in a dry run no POST is issued, and every document whose probe
\* reported a known filter gets its 'export --out' call next, whose success
\* leaves the export file on disk.
C4_DryRun ==
  dryrun =>
    /\ \A i \in Idx : log[i].op # "post"
    /\ \A i \in Idx :
         (log[i].op = "probe" /\ log[i].ok /\ Known(log[i].arg)) =>
           \/ i = Len(log) /\ pc = "export"
           \/ /\ i < Len(log)
              /\ IsCall(i + 1, "export_out", log[i].doc)
              /\ (log[i + 1].ok => log[i].doc \in files)

C4_Witness ==
  /\ dryrun
  /\ pc = "done"
  /\ \E i \in Idx : log[i].op = "export_out" /\ log[i].ok /\ log[i].doc \in files

\* C5: a non-success answer to GET /api/ or GET /api/tags/ ends the run at
\* once: no entry is visited, no subprocess runs, nothing is exported or
\* POSTed.
C5_StartupFailureAborts ==
  \A i \in Idx :
    (log[i].op \in {"get_api", "get_tags"} /\ ~log[i].ok) =>
      /\ pc = "aborted"
      /\ i = Len(log)
      /\ \A j \in Idx : log[j].op \in {"get_api", "get_tags"}

C5_Witness ==
  /\ pc = "aborted"
  /\ Len(log) = 1
  /\ log[1].op = "get_api" /\ ~log[1].ok
  /\ \E e \in archive : e.is_dir /\ e.name \notin files

\* C6: a failed subprocess or a non-success POST is the last call of its
\* run: the run is aborted and no later entry is processed.
C6_FailureAbortsBatch ==
  \A i \in Idx :
    (log[i].op \in Subprocess \cup {"post"} /\ ~log[i].ok) =>
      i = Len(log) /\ pc = "aborted"

C6_Witness ==
  /\ pc = "aborted"
  /\ Len(log) > 0
  /\ log[Len(log)].op = "post" /\ ~log[Len(log)].ok
  /\ \E e \in todo : e.is_dir /\ strptime(e.prefix) # <<>> /\ e.name \notin files

\* C7: the payload's tags are, in label order, mapping[lowercase(label)]
\* for exactly the labels whose lowercased text is a key of the mapping;
\* slugs {invoice: 3, receipt: 7} and labels [Invoice, unknown-label] give [3].
Matching(lbls, ids) == {i \in 1..Len(lbls) : lower(lbls[i]) \in DOMAIN ids}
Rank(S, i) == Cardinality({j \in S : j <= i})
C7_PayloadTags ==
  (Len(log) > 0 /\ log[Len(log)].op = "post") =>
    LET tags == log[Len(log)].arg.tags
        M == Matching(labels, tag_ids)
    IN /\ Len(tags) = Cardinality(M)
       /\ \A i \in M : tags[Rank(M, i)] = tag_ids[lower(labels[i])]
       /\ (/\ labels = <<Invoice, unknown_label>>
           /\ DOMAIN tag_ids = {invoice, receipt}
           /\ tag_ids[invoice] = 3 /\ tag_ids[receipt] = 7) => tags = <<3>>
       /\ (/\ labels = <<ECOLE, Invoice>>
           /\ DOMAIN tag_ids = {ecole, invoice}
           /\ tag_ids[ecole] = 9 /\ tag_ids[invoice] = 3) => tags = <<9, 3>>

C7_Witness ==
  /\ Len(log) > 0 /\ log[Len(log)].op = "post"
  /\ labels = <<Invoice, unknown_label>>
  /\ DOMAIN tag_ids = {invoice, receipt}
  /\ log[Len(log)].arg.tags = <<3>>

\* C8: when the probe result contains unmodified_pdf, the document's only
\* 'export --out' call carries the single filter unmodified_pdf.
C8_UnmodifiedPreferred ==
  \A i \in Idx :
    (log[i].op = "probe" /\ log[i].ok /\ UNMODIFIED \in log[i].arg) =>
      /\ Cardinality(ExportsOf(log[i].doc)) <= 1
      /\ \A j \in ExportsOf(log[i].doc) : log[j].arg = <<UNMODIFIED>>
      /\ (i < Len(log) => IsCall(i + 1, "export_out", log[i].doc))

C8_Witness ==
  \E i \in Idx :
    /\ log[i].op = "probe" /\ log[i].arg = {UNMODIFIED, DOC_TO_PAGES}
    /\ i < Len(log) /\ log[i + 1].op = "export_out" /\ log[i + 1].arg = <<UNMODIFIED>>

\* C9: when the probe result contains doc_to_pages and not unmodified_pdf,
\* the document's only 'export --out' call carries the filters doc_to_pages,
\* img_boxes, generated_pdf in that order.
C9_PageChain ==
  \A i \in Idx :
    (log[i].op = "probe" /\ log[i].ok /\ DOC_TO_PAGES \in log[i].arg
       /\ UNMODIFIED \notin log[i].arg) =>
      /\ Cardinality(ExportsOf(log[i].doc)) <= 1
      /\ \A j \in ExportsOf(log[i].doc) :
           log[j].arg = <<"doc_to_pages", "img_boxes", "generated_pdf">>
      /\ (i < Len(log) => IsCall(i + 1, "export_out", log[i].doc))

C9_Witness ==
  \E i \in Idx :
    /\ log[i].op = "probe" /\ log[i].arg = {DOC_TO_PAGES}
    /\ i < Len(log) /\ log[i + 1].op = "export_out" /\ Len(log[i + 1].arg) = 3

\* C10: a document is POSTed at most once per run, and only after its show
\* call, its filter probe and a successful 'export --out' call, in that
\* order, in the same run.
C10_ForwardOnly ==
  \A i \in Idx :
    log[i].op = "post" =>
      /\ \A j \in Idx : (log[j].op = "post" /\ log[j].doc = log[i].doc) => j = i
      /\ \E c \in 1..(i - 1) :
           /\ IsCall(c, "export_out", log[i].doc) /\ log[c].ok
           /\ \E b \in 1..(c - 1) :
                /\ IsCall(b, "probe", log[i].doc) /\ log[b].ok
                /\ \E a \in 1..(b - 1) : IsCall(a, "show", log[i].doc) /\ log[a].ok

C10_Witness ==
  /\ pc = "done"
  /\ Cardinality({i \in Idx : log[i].op = "post" /\ log[i].ok}) >= 2

====
